---- MODULE Spec2Model ----
(***************************************************************************)
(* Sinamics V20 monitor: the parameter registry of SinamicV20, the         *)
(* register read pipeline built on it (single / multi / all / dict), the   *)
(* collector's polling loop and the maintainer's speed classification.     *)
(*                                                                         *)
(* Python values are modelled as follows.                                  *)
(*   - Optional[int]: None is the empty tuple <<>>, a value v is <<v>>.    *)
(*   - dict: the tuple of its <<key, value>> items in insertion order; an  *)
(*     assignment to a key already present replaces the value in place.    *)
(*   - a float that is compared with a threshold: a fraction <<n, d>>      *)
(*     with d > 0, compared by cross-multiplication.                       *)
(***************************************************************************)
EXTENDS Integers, Sequences, FiniteSets, TLC

VARIABLES
  \* ---- one call of a SinamicV20 read method (SpecPoll) ----
  op,           \* the method called: "single", "multi", "all", "all_dict"
  addresses,    \* the addresses the call reads, in order
  script,       \* the transport's response to the k-th transaction of the call
  ret,          \* what the call returned: [raised, value, calls]
  ppc,          \* "ready" before the call, "done" after it
  \* ---- apps/collector.py main (Spec) ----
  pc,           \* position in main()
  interval,     \* the configured collection interval
  now,          \* time.time()
  start_time,   \* start_time of the current cycle
  elapsed,      \* elapsed of the last finished cycle
  sleep_time,   \* sleep_time of the last finished cycle
  idx,          \* index into ADDRESS_LIST of the next register to read
  responses,    \* the transport's responses of the current poll, in order
  raw_values,   \* read_raw_all_address: values
  data,         \* the snapshot of the last finished poll ({} before the first)
  success,      \* collect_and_store_data's last return value
  row,          \* the store's row with ID = 0
  conn_closed,  \* number of conn.close() calls
  client_closed,\* number of client.close() calls
  stopped_by,   \* why main() left the loop or never entered it
  fatal_seen,   \* some transaction so far reported "not connected"
  connects,     \* number of client.connect() calls
  exit_code,    \* what main() returned, None while it runs
  cycle,        \* number of passes of the while loop begun so far
  reads_done,   \* number of register transactions completed so far
  stores_done,  \* number of collect_and_store_data calls that returned
  \* ---- apps/maintainer.py speed classification (SpecSpeed) ----
  speed,        \* the speed handed to analyze_speed, a fraction <<n, d>>
  status,       \* analyze_speed's status
  spc,          \* "ready" before the classification, "done" after it
  \* ---- utils/database/operations.py, the table (SpecStore) ----
  table,        \* the rows of the table, in insertion order
  written,      \* the snapshot of the last cycle whose write succeeded
  tcycles,      \* number of collector cycles run against the table
  tsuccess,     \* collect_and_store_data's return value in the last cycle
  tdata,        \* the snapshot of the last cycle
  tfault,       \* what the database did to the write of the last cycle
  tpc,          \* "new" before create_database ran, "ready" after
  cfg_row_id,   \* row_id, as main takes it from the configuration
  \* ---- utils/data/collector.py DataCollector (SpecCsv) ----
  csv_file,     \* the rows of the CSV file, each a list of field texts
  clast,        \* the list of values of the last row written
  ccount,       \* self.count
  cret,         \* what the last collect_data_point returned
  cheader,      \* the header row reached the file
  cpc,          \* "new" before DataCollector(...), "ready" after
  \* ---- utils/visualization, apps/visualizer.py: the chart (SpecChart) ----
  x_data,       \* RealtimePlot.x_data
  y_data,       \* RealtimePlot.y_data, each value a fraction <<n, d>> or None
  y_src,        \* for each point of y_data, where it came from:
                \* "init", "ok" (a pull that succeeded), "failed"
  new_value,    \* what the last call of the update callback returned
  n_updates,    \* number of timer ticks so far
  chart_src,    \* the callback: "modbus" (_get_modbus_data) or
                \* "database" (_get_speed_data)
  n_points,     \* self.n_points
  graph_widget, \* self.graph_widget is not None
  timer,        \* self.timer: "none" for None, else the QTimer's state,
                \* "running" or "stopped"
  timers_created, \* number of QTimer objects created
  plot_op,      \* the last RealtimePlot method called
  \* ---- utils/modbus/monitor.py ModbusMonitor (SpecMonitor) ----
  mpc,          \* position in the use of the monitor
  owns_client,  \* self.owns_client
  as_context,   \* the monitor is used in a with statement
  max_iterations, \* monitor_continuous' argument, None for no limit
  iterations,   \* iterations
  registers,    \* what the last read_registers returned
  m_connects,   \* number of client.connect() calls
  m_closed,     \* number of client.close() calls
  m_end,        \* how monitor_continuous left its loop
  m_reads,      \* number of read_registers calls
  m_good_reads, \* number of read_registers calls that returned registers
  m_callbacks,  \* number of calls of the callback
  \* ---- utils/config/settings.py load_config (SpecConfig) ----
  cfg_heap,     \* the section dicts: object -> (key -> value)
  config,       \* the global config: section -> object
  cfg_loads,    \* number of load_config calls
  last_file,    \* the file configuration of the last call
  last_env      \* the MODCON_ environment variables of the last call

pollVars == <<op, addresses, script, ret, ppc>>
collVars == <<pc, interval, now, start_time, elapsed, sleep_time, idx, responses,
              raw_values, data, success, row, conn_closed, client_closed,
              stopped_by, fatal_seen, connects, exit_code, cycle, reads_done,
              stores_done>>
speedVars == <<speed, status, spc>>
storeVars == <<table, written, tcycles, tsuccess, tdata, tfault, tpc, cfg_row_id>>
\* the variables of the specifications other than SpecPoll, Spec, SpecSpeed
csvVars == <<csv_file, clast, ccount, cret, cheader, cpc>>
plotCtl == <<n_points, graph_widget, timer, timers_created, plot_op>>
chartVars == <<x_data, y_data, y_src, new_value, n_updates, chart_src, plotCtl>>
monVars == <<mpc, owns_client, as_context, max_iterations, iterations, registers,
             m_connects, m_closed, m_end, m_reads, m_good_reads, m_callbacks>>
cfgVars == <<cfg_heap, config, cfg_loads, last_file, last_env>>
otherVars == <<storeVars, csvVars, chartVars, monVars, cfgVars>>
notStoreVars == <<pollVars, collVars, speedVars, csvVars, chartVars, monVars, cfgVars>>
notCsvVars == <<pollVars, collVars, speedVars, storeVars, chartVars, monVars, cfgVars>>
notChartVars == <<pollVars, collVars, speedVars, storeVars, csvVars, monVars, cfgVars>>
notMonVars == <<pollVars, collVars, speedVars, storeVars, csvVars, chartVars, cfgVars>>
notCfgVars == <<pollVars, collVars, speedVars, storeVars, csvVars, chartVars, monVars>>
vars == <<pollVars, collVars, speedVars, otherVars>>

(***************************************************************************)
(* Python values                                                           *)
(***************************************************************************)
None == <<>>

Some(v) == <<v>>

IsNone(x) == x = <<>>

\* a list given by a rule, as the list of its elements
AsList(f) == SubSeq(f, 1, Len(f))

DictHas(d, k) == \E j \in 1..Len(d) : d[j][1] = k

DictGet(d, k) == d[CHOOSE j \in 1..Len(d) : d[j][1] = k][2]

DictSet(d, k, v) ==
  IF DictHas(d, k)
    THEN [j \in 1..Len(d) |-> IF d[j][1] = k THEN <<k, v>> ELSE d[j]]
    ELSE Append(d, <<k, v>>)

DictKeys(d) == [j \in 1..Len(d) |-> d[j][1]]

DictOf(items_) ==
  \* the dict that results from assigning items[1], items[2], ... in order:
  \* a key keeps the place of its first assignment and the value of its last
  LET items == AsList(items_)
      n == Len(items)
      firsts == SelectSeq([j \in 1..n |-> j],
                          LAMBDA j : \A m \in 1..(j - 1) : items[m][1] # items[j][1])
      last(k) == CHOOSE j \in 1..n :
                   items[j][1] = k /\ \A m \in (j + 1)..n : items[m][1] # k
  IN  AsList([p \in 1..Len(firsts) |->
                <<items[firsts[p]][1], items[last(items[firsts[p]][1])][2]>>])

(***************************************************************************)
(* SinamicV20.__init__: the registry                                       *)
(***************************************************************************)
address_to_name_literal ==
  <<
    <<40001, "WDOG_TIME">>, <<40002, "WDOG_ACTION">>, <<40003, "FREQ_REF">>,
    <<40004, "RUN_ENABLE">>, <<40005, "CMD_FWD_REV">>, <<40006, "CMD_START">>,
    <<40007, "FAULT_ACK">>, <<40008, "PID_SETP_REF">>, <<40009, "ENABLE_PID">>,
    <<40010, "CURRENT_LMT">>, <<40011, "ACCEL_TIME">>, <<40012, "DECEL_TIME">>,
    <<40014, "DIGITAL_OUT_1">>, <<40015, "DIGITAL_OUT_2">>, <<40016, "REF_FREQ">>,
    <<40017, "PID_UP_LMT">>, <<40018, "PID_LO_LMT">>, <<40019, "P_GAIN">>,
    <<40020, "I_GAIN">>, <<40021, "D_GAIN">>, <<40022, "FEEDBK_GAIN">>,
    <<40023, "LOW_PASS">>, <<40024, "FREQ_OUTPUT">>, <<40025, "SPEED">>,
    <<40026, "CURRENT">>, <<40027, "TORQUE">>, <<40028, "ACTUAL_PWR">>,
    <<40029, "TOTAL_KWH">>, <<40030, "DC_BUS_VOLTS">>, <<40031, "REFERENCE">>,
    <<40032, "RATED_PWR">>, <<40033, "OUTPUT_VOLTS">>, <<40034, "FWD_REV">>,
    <<40035, "STOP_RUN">>, <<40036, "AT_MAX_FREQ">>, <<40037, "CONTROL_MODE">>,
    <<40038, "ENABLED">>, <<40039, "READY_TO_RUN">>, <<40040, "ANALOG_IN_1">>,
    <<40041, "ANALOG_IN_2">>, <<40042, "ANALOG_OUT_1">>, <<40044, "FREQ_ACTUAL">>,
    <<40045, "PID_SETP_OUT">>, <<40046, "PID_OUTPUT">>, <<40047, "PID_FEEDBACK">>,
    <<40048, "DIGITAL_IN_1">>, <<40049, "DIGITAL_IN_2">>, <<40050, "DIGITAL_IN_3">>,
    <<40051, "DIGITAL_IN_4">>, <<40054, "FAULT">>, <<40055, "LAST_FAULT">>,
    <<40056, "FAULT_1">>, <<40057, "FAULT_2">>, <<40058, "FAULT_3">>,
    <<40059, "WARNING">>, <<40060, "LAST_WARNING">>, <<40061, "INVERTER_VER">>,
    <<40062, "DRIVE_MODEL">>, <<40100, "STW">>, <<40101, "HSW">>,
    <<40110, "ZSW">>, <<40111, "HIW">>, <<40300, "INVERTER_MODEL">>,
    <<40301, "INVERTER_VER">>, <<40349, "HAND_AUTO">>, <<40403, "FAULT_4">>,
    <<40404, "FAULT_5">>, <<40405, "FAULT_6">>, <<40406, "FAULT_7">>,
    <<40407, "FAULT_8">>, <<40499, "PRM_ERROR_CODE">>, <<40521, "PI_FEEDBACK">>
  >>

address_to_name == DictOf(address_to_name_literal)

name_to_address ==
  \* {self.address_to_name[k]: k for k in self.address_to_name.keys()}
  DictOf([n \in 1..Len(address_to_name) |->
            <<address_to_name[n][2], address_to_name[n][1]>>])

ADDRESS_LENGTH == Len(DictKeys(address_to_name))

ADDRESS_LIST == DictKeys(address_to_name)

address_to_param_literal ==
  <<
    <<40001, [NAME |-> "WDOG_TIME", SCALE |-> 1]>>, <<40002, [NAME |-> "WDOG_ACTION", SCALE |-> 1]>>,
    <<40003, [NAME |-> "FREQ_REF", SCALE |-> 100]>>, <<40004, [NAME |-> "RUN_ENABLE", SCALE |-> 1]>>,
    <<40005, [NAME |-> "CMD_FWD_REV", SCALE |-> 1]>>, <<40006, [NAME |-> "CMD_START", SCALE |-> 1]>>,
    <<40007, [NAME |-> "FAULT_ACK", SCALE |-> 1]>>, <<40008, [NAME |-> "PID_SETP_REF", SCALE |-> 100]>>,
    <<40009, [NAME |-> "ENABLE_PID", SCALE |-> 1]>>, <<40010, [NAME |-> "CURRENT_LMT", SCALE |-> 10]>>,
    <<40011, [NAME |-> "ACCEL_TIME", SCALE |-> 100]>>, <<40012, [NAME |-> "DECEL_TIME", SCALE |-> 100]>>,
    <<40014, [NAME |-> "DIGITAL_OUT_1", SCALE |-> 1]>>, <<40015, [NAME |-> "DIGITAL_OUT_2", SCALE |-> 1]>>,
    <<40016, [NAME |-> "REF_FREQ", SCALE |-> 100]>>, <<40017, [NAME |-> "PID_UP_LMT", SCALE |-> 100]>>,
    <<40018, [NAME |-> "PID_LO_LMT", SCALE |-> 100]>>, <<40019, [NAME |-> "P_GAIN", SCALE |-> 1000]>>,
    <<40020, [NAME |-> "I_GAIN", SCALE |-> 1]>>, <<40021, [NAME |-> "D_GAIN", SCALE |-> 1]>>,
    <<40022, [NAME |-> "FEEDBK_GAIN", SCALE |-> 100]>>, <<40023, [NAME |-> "LOW_PASS", SCALE |-> 100]>>,
    <<40024, [NAME |-> "FREQ_OUTPUT", SCALE |-> 100]>>, <<40025, [NAME |-> "SPEED", SCALE |-> 1]>>,
    <<40026, [NAME |-> "CURRENT", SCALE |-> 100]>>, <<40027, [NAME |-> "TORQUE", SCALE |-> 100]>>,
    <<40028, [NAME |-> "ACTUAL_PWR", SCALE |-> 100]>>, <<40029, [NAME |-> "TOTAL_KWH", SCALE |-> 1]>>,
    <<40030, [NAME |-> "DC_BUS_VOLTS", SCALE |-> 1]>>, <<40031, [NAME |-> "REFERENCE", SCALE |-> 100]>>,
    <<40032, [NAME |-> "RATED_PWR", SCALE |-> 100]>>, <<40033, [NAME |-> "OUTPUT_VOLTS", SCALE |-> 1]>>,
    <<40034, [NAME |-> "FWD_REV", SCALE |-> 1]>>, <<40035, [NAME |-> "STOP_RUN", SCALE |-> 1]>>,
    <<40036, [NAME |-> "AT_MAX_FREQ", SCALE |-> 1]>>, <<40037, [NAME |-> "CONTROL_MODE", SCALE |-> 1]>>,
    <<40038, [NAME |-> "ENABLED", SCALE |-> 1]>>, <<40039, [NAME |-> "READY_TO_RUN", SCALE |-> 1]>>,
    <<40040, [NAME |-> "ANALOG_IN_1", SCALE |-> 100]>>, <<40041, [NAME |-> "ANALOG_IN_2", SCALE |-> 100]>>,
    <<40042, [NAME |-> "ANALOG_OUT_1", SCALE |-> 100]>>, <<40044, [NAME |-> "FREQ_ACTUAL", SCALE |-> 100]>>,
    <<40045, [NAME |-> "PID_SETP_OUT", SCALE |-> 100]>>, <<40046, [NAME |-> "PID_OUTPUT", SCALE |-> 100]>>,
    <<40047, [NAME |-> "PID_FEEDBACK", SCALE |-> 100]>>, <<40048, [NAME |-> "DIGITAL_IN_1", SCALE |-> 1]>>,
    <<40049, [NAME |-> "DIGITAL_IN_2", SCALE |-> 1]>>, <<40050, [NAME |-> "DIGITAL_IN_3", SCALE |-> 1]>>,
    <<40051, [NAME |-> "DIGITAL_IN_4", SCALE |-> 1]>>, <<40054, [NAME |-> "FAULT", SCALE |-> 1]>>,
    <<40055, [NAME |-> "LAST_FAULT", SCALE |-> 1]>>, <<40056, [NAME |-> "FAULT_1", SCALE |-> 1]>>,
    <<40057, [NAME |-> "FAULT_2", SCALE |-> 1]>>, <<40058, [NAME |-> "FAULT_3", SCALE |-> 1]>>,
    <<40059, [NAME |-> "WARNING", SCALE |-> 1]>>, <<40060, [NAME |-> "LAST_WARNING", SCALE |-> 1]>>,
    <<40061, [NAME |-> "INVERTER_VER", SCALE |-> 100]>>, <<40062, [NAME |-> "DRIVE_MODEL", SCALE |-> 1]>>,
    <<40100, [NAME |-> "STW", SCALE |-> 1]>>, <<40101, [NAME |-> "HSW", SCALE |-> 1]>>,
    <<40110, [NAME |-> "ZSW", SCALE |-> 1]>>, <<40111, [NAME |-> "HIW", SCALE |-> 1]>>,
    <<40300, [NAME |-> "INVERTER_MODEL", SCALE |-> 1]>>, <<40301, [NAME |-> "INVERTER_VER", SCALE |-> 100]>>,
    <<40349, [NAME |-> "HAND_AUTO", SCALE |-> 1]>>, <<40403, [NAME |-> "FAULT_4", SCALE |-> 1]>>,
    <<40404, [NAME |-> "FAULT_5", SCALE |-> 1]>>, <<40405, [NAME |-> "FAULT_6", SCALE |-> 1]>>,
    <<40406, [NAME |-> "FAULT_7", SCALE |-> 1]>>, <<40407, [NAME |-> "FAULT_8", SCALE |-> 1]>>,
    <<40499, [NAME |-> "PRM_ERROR_CODE", SCALE |-> 1]>>, <<40521, [NAME |-> "PI_FEEDBACK", SCALE |-> 100]>>
  >>

address_to_param == DictOf(address_to_param_literal)

(***************************************************************************)
(* The transport (pymodbus client.read_holding_registers): one response    *)
(* per transaction.  kind "ok" carries the registers read; "isError" is a  *)
(* response whose isError() is true; the other kinds are exceptions the    *)
(* call throws ("ConnectionException", pymodbus' not-connected error, is a *)
(* subclass of ModbusException).                                           *)
(***************************************************************************)
OkResp(v) == [kind |-> "ok", registers |-> <<v>>]

FailResp(k) == [kind |-> k, registers |-> <<>>]

ModbusExceptionKinds == {"ModbusException", "ConnectionException"}

FailKinds == {"isError", "Exception"} \cup ModbusExceptionKinds

IsOk(resp) == resp.kind = "ok"

(***************************************************************************)
(* SinamicV20.read_raw_single_address                                      *)
(***************************************************************************)
actual_address(address) == address - 40001

transport_call(address) == [address |-> actual_address(address), count |-> 1]

read_raw_single_address_reraise(address, resp) ==
  IF resp.kind \in ModbusExceptionKinds
    THEN [raised |-> FALSE, value |-> None, call |-> transport_call(address)]
  ELSE IF resp.kind = "Exception"
    THEN [raised |-> TRUE, value |-> None, call |-> transport_call(address)]
  ELSE IF resp.kind = "isError"
    THEN [raised |-> FALSE, value |-> None, call |-> transport_call(address)]
  ELSE [raised |-> FALSE, value |-> Some(resp.registers[1]),
        call |-> transport_call(address)]

read_raw_single_address_zero(address, resp) ==
  IF resp.kind \in FailKinds
    THEN [raised |-> FALSE,
          value  |-> IF resp.kind = "isError" THEN Some(0) ELSE None,
          call   |-> transport_call(address)]
  ELSE [raised |-> FALSE, value |-> Some(resp.registers[1]),
        call |-> transport_call(address)]

read_raw_single_address_fatal(address, resp) ==
  IF resp.kind \in FailKinds
    THEN [raised |-> resp.kind = "ConnectionException", value |-> None,
          call |-> transport_call(address)]
  ELSE [raised |-> FALSE, value |-> Some(resp.registers[1]),
        call |-> transport_call(address)]

read_raw_single_address(address, resp) ==
  IF resp.kind \in ModbusExceptionKinds
    \* except ModbusException: return None
    THEN [raised |-> FALSE, value |-> None, call |-> transport_call(address)]
  ELSE IF resp.kind = "Exception"
    \* except Exception: return None
    THEN [raised |-> FALSE, value |-> None, call |-> transport_call(address)]
  ELSE IF resp.kind = "isError"
    \* if result.isError(): return None
    THEN [raised |-> FALSE, value |-> None, call |-> transport_call(address)]
  \* return result.registers[0]
  ELSE [raised |-> FALSE, value |-> Some(resp.registers[1]),
        call |-> transport_call(address)]

(***************************************************************************)
(* SinamicV20.read_raw_multi_address: the loop over the first n addresses  *)
(***************************************************************************)
multi_append_skip_failed(values, r) ==
  IF r.raised \/ IsNone(r.value) THEN values ELSE Append(values, r.value)

multi_append(values, r) ==
  \* values.append(value); except Exception: values.append(None)
  IF r.raised THEN Append(values, None) ELSE Append(values, r.value)

RECURSIVE multi_loop_stop_on_failure(_, _, _)
multi_loop_stop_on_failure(addrs, scr, n) ==
  IF n = 0 THEN [values |-> <<>>, calls |-> <<>>]
  ELSE LET p == multi_loop_stop_on_failure(addrs, scr, n - 1)
           r == read_raw_single_address(addrs[n], scr[n])
       IN  IF \E m \in 1..(n - 1) : ~IsOk(scr[m])
             THEN [values |-> Append(p.values, None), calls |-> p.calls]
             ELSE [values |-> multi_append(p.values, r),
                   calls |-> Append(p.calls, r.call)]

\* the n-th pass of the loop, after the passes that gave l
multi_step(l, addrs, scr, n) ==
  LET r == read_raw_single_address(addrs[n], scr[n])
  IN  [values |-> multi_append(l.values, r), calls |-> Append(l.calls, r.call)]

\* the passes lo..hi of the loop, in order, after the passes that gave l
\* (split in halves, which keeps the evaluation shallow for 72 addresses)
RECURSIVE multi_loop_from(_, _, _, _, _)
multi_loop_from(l, addrs, scr, lo, hi) ==
  IF lo > hi THEN l
  ELSE IF lo = hi THEN multi_step(l, addrs, scr, lo)
  ELSE LET mid == (lo + hi) \div 2
           h   == multi_loop_from(l, addrs, scr, lo, mid)
       \* the first half is evaluated before the second half starts
       IN  IF Len(h.calls) >= 0
             THEN multi_loop_from(h, addrs, scr, mid + 1, hi)
             ELSE l

multi_loop(addrs, scr, n) ==
  multi_loop_from([values |-> <<>>, calls |-> <<>>], addrs, scr, 1, n)

read_raw_multi_address(addrs, scr) ==
  LET l == multi_loop(addrs, scr, Len(addrs))
  IN  [raised |-> FALSE, value |-> l.values, calls |-> l.calls]

(***************************************************************************)
(* SinamicV20.read_raw_all_address: the loop over ADDRESS_LIST, inside one *)
(* try; an exception anywhere yields [None] * len(ADDRESS_LIST)            *)
(***************************************************************************)
all_reads(scr) ==
  \* the read of each address of ADDRESS_LIST, in order
  [n \in 1..Len(ADDRESS_LIST) |-> read_raw_single_address(ADDRESS_LIST[n], scr[n])]

all_loop(scr) ==
  \* the loop runs to the first read that raises, or to the end
  LET reads  == AsList(all_reads(scr))
      raises == {n \in 1..Len(reads) : reads[n].raised}
      done   == IF raises = {} THEN Len(reads)
                ELSE CHOOSE n \in raises : \A m \in raises : n <= m
  IN  [values |-> [n \in 1..(IF raises = {} THEN done ELSE done - 1) |-> reads[n].value],
       calls  |-> [n \in 1..done |-> reads[n].call],
       raised |-> raises # {}]

all_none == [k \in 1..Len(ADDRESS_LIST) |-> None]

read_raw_all_address(scr) ==
  LET l == all_loop(scr)
  IN  [raised |-> FALSE,
       value  |-> IF l.raised THEN all_none ELSE l.values,
       calls  |-> l.calls]

(***************************************************************************)
(* SinamicV20.read_raw_all_address_convert_dict                            *)
(***************************************************************************)
param_name(address) == DictGet(address_to_param, address).NAME

param_scale(address) == DictGet(address_to_param, address).SCALE

snapshot_value_scaled(address, raw) ==
  IF IsNone(raw) THEN None ELSE Some(raw[1] \div param_scale(address))

snapshot_value(address, raw) ==
  \* values_dict[param_name] = raw_values[i]
  raw

convert_loop(raw) ==
  \* for i, address in enumerate(ADDRESS_LIST): if i < len(raw_values):
  \*     values_dict[NAME of address] = raw_values[i]
  LET m == IF Len(raw) < Len(ADDRESS_LIST) THEN Len(raw) ELSE Len(ADDRESS_LIST)
  IN  DictOf([n \in 1..m |-> <<param_name(ADDRESS_LIST[n]),
                               snapshot_value(ADDRESS_LIST[n], raw[n])>>])

convert_raises(raw) ==
  \* KeyError of self.address_to_param[address]
  \E n \in 1..Len(ADDRESS_LIST) :
    n - 1 < Len(raw) /\ ~DictHas(address_to_param, ADDRESS_LIST[n])

to_dict(raw) ==
  IF convert_raises(raw) THEN <<>> ELSE convert_loop(raw)

read_raw_all_address_convert_dict(scr) ==
  LET r == read_raw_all_address(scr)
  IN  [raised |-> FALSE,
       value  |-> IF r.raised THEN <<>> ELSE to_dict(r.value),
       calls  |-> r.calls]

(***************************************************************************)
(* utils/database/operations.py: the store.  The table holds the row the   *)
(* INSERT of create_database writes; a row is the dict of its columns.     *)
(***************************************************************************)
initial_row_literal ==
  <<
    <<"ID", 0>>, <<"WDOG_TIME", 0>>, <<"WDOG_ACTION", 0>>, <<"FREQ_REF", 0>>,
    <<"RUN_ENABLE", 0>>, <<"CMD_FWD_REV", 0>>, <<"CMD_START", 0>>, <<"FAULT_ACK", 999>>,
    <<"PID_SETP_REF", 0>>, <<"ENABLE_PID", 1186>>, <<"CURRENT_LMT", 1000>>, <<"ACCEL_TIME", 1000>>,
    <<"DECEL_TIME", 1>>, <<"DIGITAL_OUT_1", 0>>, <<"DIGITAL_OUT_2", 1500>>, <<"REF_FREQ", 10000>>,
    <<"PID_UP_LMT", 0>>, <<"PID_LO_LMT", 3000>>, <<"P_GAIN", 0>>, <<"I_GAIN", 0>>,
    <<"D_GAIN", 10000>>, <<"FEEDBK_GAIN", 10000>>, <<"LOW_PASS", 0>>, <<"FREQ_OUTPUT", 0>>,
    <<"SPEED", 0>>, <<"CURRENT", 0>>, <<"TORQUE", 0>>, <<"ACTUAL_PWR", 17>>,
    <<"TOTAL_KWH", 315>>, <<"DC_BUS_VOLTS", 7>>, <<"REFERENCE", 55>>, <<"RATED_PWR", 0>>,
    <<"OUTPUT_VOLTS", 1>>, <<"FWD_REV", 0>>, <<"STOP_RUN", 0>>, <<"AT_MAX_FREQ", 1>>,
    <<"CONTROL_MODE", 1>>, <<"ENABLED", 0>>, <<"READY_TO_RUN", 0>>, <<"ANALOG_IN_1", 21>>,
    <<"ANALOG_IN_2", 0>>, <<"ANALOG_OUT_1", 0>>, <<"FREQ_ACTUAL", 999>>, <<"PID_SETP_OUT", 0>>,
    <<"PID_OUTPUT", 0>>, <<"PID_FEEDBACK", 0>>, <<"DIGITAL_IN_1", 0>>, <<"DIGITAL_IN_2", 0>>,
    <<"DIGITAL_IN_3", 0>>, <<"DIGITAL_IN_4", 0>>, <<"FAULT", 0>>, <<"LAST_FAULT", 0>>,
    <<"FAULT_1", 0>>, <<"FAULT_2", 0>>, <<"FAULT_3", 0>>, <<"WARNING", 0>>,
    <<"LAST_WARNING", 394>>, <<"INVERTER_VER", 6307>>, <<"DRIVE_MODEL", 0>>, <<"STW", 0>>,
    <<"HSW", 60209>>, <<"ZSW", 0>>, <<"HIW", 6307>>, <<"INVERTER_MODEL", 394>>,
    <<"HAND_AUTO", 1>>, <<"FAULT_4", 0>>, <<"FAULT_5", 0>>, <<"FAULT_6", 0>>,
    <<"FAULT_7", 0>>, <<"FAULT_8", 0>>, <<"PRM_ERROR_CODE", 255>>, <<"PI_FEEDBACK", 12>>
  >>

initial_row == DictOf(initial_row_literal)

generate_update_query_by_id(data_dict, id_value) ==
  \* "UPDATE t SET k = v, ... WHERE ID = id": v is the text of the value,
  \* which is None for a value that is None
  [updates |-> data_dict, id |-> id_value]

apply_updates(r, updates) ==
  \* SET k = v, ...: each assigned column takes its value, the others keep theirs
  AsList([j \in 1..Len(r) |->
            IF DictHas(updates, r[j][1])
              THEN <<r[j][1], DictGet(updates, r[j][1])[1]>>
              ELSE r[j]])

execute_raises(r, query) ==
  \* sqlite3.OperationalError: "no such column", for the bare word None on
  \* the right of an assignment and for an assigned column the table lacks
  \E n \in 1..Len(query.updates) :
    IsNone(query.updates[n][2]) \/ ~DictHas(r, query.updates[n][1])

execute(r, query) ==
  IF execute_raises(r, query) THEN r
  ELSE IF DictGet(r, "ID") = query.id
    THEN apply_updates(r, query.updates)
  ELSE r

(***************************************************************************)
(* apps/collector.py                                                       *)
(***************************************************************************)
row_id == 0

Max(a, b) == IF a >= b THEN a ELSE b

sleep_time_fixed(interval_, elapsed_) == interval_

sleep_time_of(interval_, elapsed_) ==
  \* sleep_time = max(0, interval - elapsed)
  Max(0, interval_ - elapsed_)

\* what the database can do to a cycle's write on its own account:
\* cursor.execute raises, or conn.commit raises
StoreFaults == {"none", "execute", "commit"}

collect_and_store_data_raises(raw, r, fault) ==
  LET d == to_dict(raw)
      q == generate_update_query_by_id(d, row_id)
  IN  IF d = <<>>
        THEN [success |-> FALSE, data |-> d, row |-> r, raised |-> FALSE]
      ELSE IF execute_raises(r, q) \/ fault # "none"
        THEN [success |-> FALSE, data |-> d, row |-> r, raised |-> TRUE]
      ELSE [success |-> TRUE, data |-> d, row |-> execute(r, q), raised |-> FALSE]

collect_and_store_data_at(raw, r, fault, id_value) ==
  \* the part of collect_and_store_data after the registers were read;
  \* except Exception: return False
  LET d == to_dict(raw)
      q == generate_update_query_by_id(d, id_value)
  IN  IF d = <<>>
        THEN [success |-> FALSE, data |-> d, row |-> r, raised |-> FALSE]
      ELSE IF execute_raises(r, q) \/ fault # "none"
        THEN [success |-> FALSE, data |-> d, row |-> r, raised |-> FALSE]
      ELSE [success |-> TRUE, data |-> d, row |-> execute(r, q), raised |-> FALSE]

\* the call with the default row id
collect_and_store_data(raw, r, fault) ==
  collect_and_store_data_at(raw, r, fault, row_id)

(***************************************************************************)
(* apps/maintainer.py: the speed classification.  A speed is a fraction    *)
(* <<n, d>>, d > 0; float('inf') is <<1, 0>>.                              *)
(***************************************************************************)
SPEED_RANGES ==
  [stopped |-> << <<0, 1>>,  <<1, 10>> >>,
   slow    |-> << <<1, 10>>, <<7, 1>> >>,
   normal  |-> << <<7, 1>>,  <<13, 1>> >>,
   high    |-> << <<13, 1>>, <<1, 0>> >>]

Leq(x, y) == x[1] * y[2] <= y[1] * x[2]

analyze_speed_lower_bounds(s) ==
  IF Leq(s, SPEED_RANGES.stopped[1]) THEN "stopped"
  ELSE IF Leq(s, SPEED_RANGES.slow[1]) THEN "slow"
  ELSE IF Leq(s, SPEED_RANGES.normal[1]) THEN "normal"
  ELSE "high"

analyze_speed(s) ==
  IF Leq(s, SPEED_RANGES.stopped[2]) THEN "stopped"
  ELSE IF Leq(s, SPEED_RANGES.slow[2]) THEN "slow"
  ELSE IF Leq(s, SPEED_RANGES.normal[2]) THEN "normal"
  ELSE "high"

\* DEFAULT_CONFIG maintainer.rpm_conversion_factor = 8.10/242 = 81/2420
rpm_conversion_factor == <<81, 2420>>

\* speed = raw_speed_value * rpm_conversion
main_speed(raw_speed_value) ==
  <<raw_speed_value * rpm_conversion_factor[1], rpm_conversion_factor[2]>>

(***************************************************************************)
(* Bounds and inputs                                                       *)
(***************************************************************************)
MaxLen == 3

MaxTime == 4

MaxElapsed == 2

MaxInterval == 2

MaxSpeedTenths == 160

MaxRawSpeed == 480

RawValues == {0, 81, 5000}

\* every response a transaction can get
Responses == {OkResp(v) : v \in RawValues} \cup {FailResp(k) : k \in FailKinds}

\* the response of the registers whose behaviour is not varied
QuietResp == OkResp(1)

\* read_raw_multi_address is called with lists over these addresses
AddrPool == {40003, 40025}

\* the registers whose response is varied in a read of all addresses:
\* FREQ_REF (scale 100), SPEED (scale 1) and the two named INVERTER_VER
PollVary == {40003, 40025, 40061, 40301}

\* the register whose response is varied in the collector's polls: SPEED
CollVary == {40025}

CollResponses == {OkResp(81), FailResp("isError"), FailResp("ConnectionException")}

SeqsUpTo(S, n) == UNION {[1..k -> S] : k \in 0..n}

AllScripts(vary, resps) ==
  {[k \in 1..Len(ADDRESS_LIST) |->
      IF ADDRESS_LIST[k] \in vary THEN f[ADDRESS_LIST[k]] ELSE QuietResp] :
     f \in [vary -> resps]}

IndexOf(address) == CHOOSE k \in 1..Len(ADDRESS_LIST) : ADDRESS_LIST[k] = address

(***************************************************************************)
(* Idle values of the variables a specification does not use               *)
(***************************************************************************)
PollIdle ==
  /\ op = "none" /\ addresses = <<>> /\ script = <<>> /\ ppc = "idle"
  /\ ret = [raised |-> FALSE, value |-> <<>>, calls |-> <<>>]

CollIdle ==
  /\ pc = "idle" /\ interval = 1 /\ now = 0 /\ start_time = 0 /\ elapsed = 0
  /\ sleep_time = 0 /\ idx = 1 /\ responses = <<>> /\ raw_values = <<>>
  /\ data = <<>> /\ success = FALSE /\ row = initial_row /\ conn_closed = 0
  /\ client_closed = 0 /\ stopped_by = "" /\ fatal_seen = FALSE
  /\ connects = 0 /\ exit_code = None
  /\ cycle = 0 /\ reads_done = 0 /\ stores_done = 0

SpeedIdle == speed = <<0, 1>> /\ status = "" /\ spc = "idle"

StoreIdle ==
  /\ table = <<>> /\ written = <<>> /\ tcycles = 0 /\ tsuccess = FALSE
  /\ tdata = <<>> /\ tfault = "none" /\ tpc = "idle" /\ cfg_row_id = 0

CsvIdle ==
  /\ csv_file = <<>> /\ clast = <<>> /\ ccount = 0 /\ cret = <<>>
  /\ cheader = FALSE /\ cpc = "idle"

ChartIdle ==
  /\ x_data = <<>> /\ y_data = <<>> /\ y_src = <<>> /\ new_value = <<>>
  /\ n_updates = 0 /\ chart_src = "idle"
  /\ n_points = 0 /\ graph_widget = FALSE /\ timer = "none"
  /\ timers_created = 0 /\ plot_op = ""

MonIdle ==
  /\ mpc = "idle" /\ owns_client = FALSE /\ as_context = FALSE
  /\ max_iterations = <<>> /\ iterations = 0 /\ registers = <<>>
  /\ m_connects = 0 /\ m_closed = 0 /\ m_end = ""
  /\ m_reads = 0 /\ m_good_reads = 0 /\ m_callbacks = 0

CfgIdle ==
  /\ cfg_heap = <<>> /\ config = <<>> /\ cfg_loads = 0
  /\ last_file = <<>> /\ last_env = {}

OtherIdle == StoreIdle /\ CsvIdle /\ ChartIdle /\ MonIdle /\ CfgIdle

NotStoreIdle ==
  PollIdle /\ CollIdle /\ SpeedIdle /\ CsvIdle /\ ChartIdle /\ MonIdle
  /\ CfgIdle

NotCsvIdle ==
  PollIdle /\ CollIdle /\ SpeedIdle /\ StoreIdle /\ ChartIdle /\ MonIdle
  /\ CfgIdle

NotChartIdle ==
  PollIdle /\ CollIdle /\ SpeedIdle /\ StoreIdle /\ CsvIdle /\ MonIdle
  /\ CfgIdle

NotMonIdle ==
  PollIdle /\ CollIdle /\ SpeedIdle /\ StoreIdle /\ CsvIdle /\ ChartIdle
  /\ CfgIdle

NotCfgIdle ==
  PollIdle /\ CollIdle /\ SpeedIdle /\ StoreIdle /\ CsvIdle /\ ChartIdle /\ MonIdle

(***************************************************************************)
(* SpecPoll: one call of a read method of SinamicV20 against a transport   *)
(* whose responses are given by script                                     *)
(***************************************************************************)
InitPoll ==
  /\ ppc = "ready"
  /\ ret = [raised |-> FALSE, value |-> <<>>, calls |-> <<>>]
  /\ \/ /\ op = "single"
        /\ addresses \in {<<a>> : a \in AddrPool}
        /\ script \in {<<r>> : r \in Responses}
     \/ /\ op = "multi"
        /\ addresses \in SeqsUpTo(AddrPool, MaxLen)
        /\ script \in [1..Len(addresses) -> Responses]
     \/ /\ op \in {"all", "all_dict"}
        /\ addresses = ADDRESS_LIST
        /\ script \in AllScripts(PollVary, Responses)
  /\ CollIdle /\ SpeedIdle /\ OtherIdle

CallSingle ==
  /\ ppc = "ready" /\ op = "single"
  /\ LET r == read_raw_single_address(addresses[1], script[1])
     IN  ret' = [raised |-> r.raised, value |-> r.value, calls |-> <<r.call>>]
  /\ ppc' = "done"
  /\ UNCHANGED <<op, addresses, script, collVars, speedVars, otherVars>>

CallMulti ==
  /\ ppc = "ready" /\ op = "multi"
  /\ ret' = read_raw_multi_address(addresses, script)
  /\ ppc' = "done"
  /\ UNCHANGED <<op, addresses, script, collVars, speedVars, otherVars>>

CallAll ==
  /\ ppc = "ready" /\ op = "all"
  /\ ret' = read_raw_all_address(script)
  /\ ppc' = "done"
  /\ UNCHANGED <<op, addresses, script, collVars, speedVars, otherVars>>

CallAllDict ==
  /\ ppc = "ready" /\ op = "all_dict"
  /\ ret' = read_raw_all_address_convert_dict(script)
  /\ ppc' = "done"
  /\ UNCHANGED <<op, addresses, script, collVars, speedVars, otherVars>>

NextPoll == CallSingle \/ CallMulti \/ CallAll \/ CallAllDict

SpecPoll == InitPoll /\ [][NextPoll]_vars

(***************************************************************************)
(* Claims about the registry and the read pipeline (SpecPoll)              *)
(***************************************************************************)
DoneSingle == ppc = "done" /\ op = "single"

DoneMulti == ppc = "done" /\ op = "multi"

DoneAllDict == ppc = "done" /\ op = "all_dict"

\* the raw value a response carries: None for a failed read
RawOf(resp) == IF IsOk(resp) THEN Some(resp.registers[1]) ELSE None

\* the parameter name and the scale of the n-th address of ADDRESS_LIST
NameAt == [n \in 1..Len(ADDRESS_LIST) |-> param_name(ADDRESS_LIST[n])]

ScaleAt == [n \in 1..Len(ADDRESS_LIST) |-> param_scale(ADDRESS_LIST[n])]

\* the places of ADDRESS_LIST whose address is the last to carry its name
LastOfName ==
  {n \in 1..Len(ADDRESS_LIST) :
     \A m \in (n + 1)..Len(ADDRESS_LIST) : NameAt[m] # NameAt[n]}

\* C1: in the registry built by SinamicV20.__init__ every register address
\* and every parameter name is unique: no two distinct addresses of
\* address_to_name / address_to_param carry the same NAME, so name_to_address
\* has exactly as many entries as ADDRESS_LIST.
C1_RegistryNamesUnique ==
  ppc \in {"ready", "done"} =>
  /\ \A i, j \in 1..Len(address_to_name) :
       i # j => /\ address_to_name[i][1] # address_to_name[j][1]
                /\ address_to_name[i][2] # address_to_name[j][2]
  /\ \A i, j \in 1..Len(address_to_param) :
       i # j => /\ address_to_param[i][1] # address_to_param[j][1]
                /\ address_to_param[i][2].NAME # address_to_param[j][2].NAME
  /\ Len(name_to_address) = Len(ADDRESS_LIST)

C3_FailedReadIsNone ==
  DoneAllDict =>
    \A n \in 1..Len(ADDRESS_LIST) :
      /\ DictHas(ret.value, NameAt[n])
      /\ DictGet(ret.value, NameAt[n]) = RawOf(script[n])

\* C4: the snapshot has exactly one key per polled address
\* (len(snapshot) = len(ADDRESS_LIST)), its keys are in the order of
\* ADDRESS_LIST translated through the registry, and each key holds the value
\* read from its own address.
C4_SnapshotOneKeyPerAddress ==
  DoneAllDict =>
    /\ Len(ret.value) = Len(ADDRESS_LIST)
    /\ \A n \in 1..Len(ADDRESS_LIST) :
         n <= Len(ret.value) =>
           /\ ret.value[n][1] = DictGet(address_to_name, ADDRESS_LIST[n])
           /\ ret.value[n][2] = RawOf(script[n])

\* C5: for every list of addresses and every pattern of failures,
\* read_raw_multi_address returns a list as long as its input, result i
\* being the result of the transaction for address i (None where it failed),
\* and never raises.
C5_MultiSameLength ==
  DoneMulti =>
    /\ ~ret.raised
    /\ Len(ret.value) = Len(addresses)
    /\ Len(ret.calls) = Len(addresses)
    /\ \A k \in 1..Len(addresses) :
         /\ ret.calls[k].address = addresses[k] - 40001
         /\ ret.value[k] = RawOf(script[k])

\* C5 witness: three addresses, every read failed
C5_Witness ==
  /\ DoneMulti
  /\ Len(addresses) = 3
  /\ \A k \in 1..3 : ~IsOk(script[k])
  /\ ret.value = <<None, None, None>>

\* C6: read_raw_single_address never raises: it returns None when the
\* transport call throws or the response reports isError(), and the first
\* register of the response otherwise.
C6_SingleNeverRaises ==
  DoneSingle =>
    /\ ~ret.raised
    /\ script[1].kind \in FailKinds => ret.value = None
    /\ script[1].kind \notin FailKinds => ret.value = Some(script[1].registers[1])

\* C6 witness: the transport call threw an exception that is no
\* ModbusException, and the call returned None
C6_Witness ==
  /\ DoneSingle
  /\ script[1].kind = "Exception"
  /\ ~ret.raised
  /\ ret.value = None

(***************************************************************************)
(* Spec: main() of apps/collector.py.  Time is counted in ticks; it passes *)
(* while a cycle collects and stores (Store) and while the loop sleeps.    *)
(***************************************************************************)
RunningPcs == {"enter_loop", "reading", "store", "sleep", "end_of_body"}

CollRespOf(address) == IF address \in CollVary THEN CollResponses ELSE {QuietResp}

Init ==
  /\ pc = "connect"
  /\ interval \in 1..MaxInterval
  /\ now = 0 /\ start_time = 0 /\ elapsed = 0 /\ sleep_time = 0
  /\ idx = 1 /\ responses = <<>> /\ raw_values = <<>>
  /\ data = <<>> /\ success = FALSE /\ row = initial_row
  /\ conn_closed = 0 /\ client_closed = 0
  /\ stopped_by = "" /\ fatal_seen = FALSE
  /\ connects = 0 /\ exit_code = None
  /\ cycle = 0 /\ reads_done = 0 /\ stores_done = 0
  /\ PollIdle /\ SpeedIdle /\ OtherIdle

ConnectFailRetries ==
  /\ pc = "connect" /\ connects < 2
  /\ connects' = connects + 1
  /\ UNCHANGED <<pc, stopped_by, exit_code, interval, now, start_time, elapsed,
                 sleep_time, idx, responses, raw_values, data, success, row,
                 conn_closed, client_closed, fatal_seen, cycle, reads_done, stores_done,
                 pollVars, speedVars, otherVars>>

\* if not connect_client(client): return 1
ConnectFail ==
  /\ pc = "connect"
  /\ connects' = connects + 1
  /\ pc' = "exit" /\ stopped_by' = "connect_failed" /\ exit_code' = Some(1)
  /\ UNCHANGED <<interval, now, start_time, elapsed, sleep_time, idx, responses,
                 raw_values, data, success, row, conn_closed, client_closed,
                 fatal_seen, cycle, reads_done, stores_done,
                 pollVars, speedVars, otherVars>>

ConnectOk ==
  /\ pc = "connect"
  /\ connects' = connects + 1
  /\ pc' = "init_db"
  /\ UNCHANGED <<exit_code, interval, now, start_time, elapsed, sleep_time, idx, responses,
                 raw_values, data, success, row, conn_closed, client_closed,
                 stopped_by, fatal_seen, cycle, reads_done, stores_done,
                 pollVars, speedVars, otherVars>>

\* conn = init_database(db_path, table_name)
InitDbOk ==
  /\ pc = "init_db"
  /\ pc' = "enter_loop"
  /\ UNCHANGED <<connects, exit_code, interval, now, start_time, elapsed, sleep_time, idx, responses,
                 raw_values, data, success, row, conn_closed, client_closed,
                 stopped_by, fatal_seen, cycle, reads_done, stores_done,
                 pollVars, speedVars, otherVars>>

\* init_database raises: the outer except Exception returns 1
InitDbFail ==
  /\ pc = "init_db"
  /\ pc' = "exit" /\ stopped_by' = "exception" /\ exit_code' = Some(1)
  /\ UNCHANGED <<connects, interval, now, start_time, elapsed, sleep_time, idx, responses,
                 raw_values, data, success, row, conn_closed, client_closed,
                 fatal_seen, cycle, reads_done, stores_done,
                 pollVars, speedVars, otherVars>>

CycleStartBeforeStore ==
  /\ pc \in {"enter_loop", "end_of_body", "store"}
  /\ start_time' = now
  /\ idx' = 1 /\ responses' = <<>> /\ raw_values' = <<>>
  /\ pc' = "reading" /\ cycle' = cycle + 1
  /\ UNCHANGED <<connects, exit_code, interval, now, elapsed, sleep_time, data, success, row,
                 conn_closed, client_closed, stopped_by, fatal_seen,
                 reads_done, stores_done,
                 pollVars, speedVars, otherVars>>

\* while True: start_time = time.time(); the poll of the cycle begins
CycleStart ==
  /\ pc \in {"enter_loop", "end_of_body"}
  /\ start_time' = now
  /\ idx' = 1 /\ responses' = <<>> /\ raw_values' = <<>>
  /\ pc' = "reading" /\ cycle' = cycle + 1
  /\ UNCHANGED <<connects, exit_code, interval, now, elapsed, sleep_time, data, success, row,
                 conn_closed, client_closed, stopped_by, fatal_seen,
                 reads_done, stores_done,
                 pollVars, speedVars, otherVars>>

\* one pass of the loop of read_raw_all_address
ReadRegister ==
  /\ pc = "reading"
  /\ \E resp \in CollRespOf(ADDRESS_LIST[idx]) :
       LET r == read_raw_single_address(ADDRESS_LIST[idx], resp)
       IN  /\ responses' = Append(responses, resp)
           /\ raw_values' = IF r.raised THEN all_none ELSE Append(raw_values, r.value)
           /\ pc' = IF r.raised \/ idx = Len(ADDRESS_LIST) THEN "store" ELSE "reading"
           /\ fatal_seen' = (fatal_seen \/ resp.kind = "ConnectionException")
  /\ idx' = idx + 1 /\ reads_done' = reads_done + 1
  /\ UNCHANGED <<connects, exit_code, interval, now, start_time, elapsed, sleep_time, data, success,
                 row, conn_closed, client_closed, stopped_by, cycle, stores_done,
                 pollVars, speedVars, otherVars>>

\* the rest of collect_and_store_data: the dict, the UPDATE, the commit
\* an exception that leaves collect_and_store_data passes the loop's
\* except KeyboardInterrupt: the finally block runs and main returns 1
Store ==
  /\ pc = "store"
  /\ stores_done' = stores_done + 1
  /\ \E fault \in StoreFaults :
       LET c == collect_and_store_data(raw_values, row, fault)
       IN  /\ data' = c.data /\ success' = c.success /\ row' = c.row
           /\ pc' = IF c.raised THEN "cleanup" ELSE "sleep"
           /\ stopped_by' = IF c.raised THEN "exception" ELSE stopped_by
  /\ \E d \in 0..MaxElapsed : now + d <= MaxTime /\ now' = now + d
  /\ UNCHANGED <<connects, exit_code, interval, start_time, elapsed, sleep_time, idx, responses,
                 raw_values, conn_closed, client_closed, fatal_seen,
                 cycle, reads_done,
                 pollVars, speedVars, otherVars>>

\* elapsed = time.time() - start_time; sleep_time = max(0, interval - elapsed);
\* if sleep_time > 0: time.sleep(sleep_time)
Sleep ==
  /\ pc = "sleep"
  /\ elapsed' = now - start_time
  /\ sleep_time' = sleep_time_of(interval, elapsed')
  /\ now + sleep_time' <= MaxTime
  /\ now' = IF sleep_time' > 0 THEN now + sleep_time' ELSE now
  /\ pc' = "end_of_body"
  /\ UNCHANGED <<connects, exit_code, interval, start_time, idx, responses, raw_values, data, success,
                 row, conn_closed, client_closed, stopped_by, fatal_seen,
                 cycle, reads_done, stores_done,
                 pollVars, speedVars, otherVars>>

\* except KeyboardInterrupt, raised anywhere inside the try of the loop
Interrupt ==
  /\ pc \in RunningPcs
  /\ pc' = "cleanup" /\ stopped_by' = "KeyboardInterrupt"
  /\ UNCHANGED <<connects, exit_code, interval, now, start_time, elapsed, sleep_time, idx, responses,
                 raw_values, data, success, row, conn_closed, client_closed,
                 fatal_seen, cycle, reads_done, stores_done,
                 pollVars, speedVars, otherVars>>

CleanupLeavesClientOpen ==
  /\ pc = "cleanup"
  /\ conn_closed' = conn_closed + 1
  /\ pc' = "exit"
  /\ exit_code' = Some(IF stopped_by = "KeyboardInterrupt" THEN 0 ELSE 1)
  /\ UNCHANGED <<connects, interval, now, start_time, elapsed, sleep_time, idx, responses,
                 raw_values, data, success, row, client_closed, stopped_by,
                 fatal_seen, cycle, reads_done, stores_done,
                 pollVars, speedVars, otherVars>>

\* finally: conn.close(); close_client(client); then return 0
Cleanup ==
  /\ pc = "cleanup"
  /\ conn_closed' = conn_closed + 1
  /\ client_closed' = client_closed + 1
  /\ pc' = "exit"
  /\ exit_code' = Some(IF stopped_by = "KeyboardInterrupt" THEN 0 ELSE 1)
  /\ UNCHANGED <<connects, interval, now, start_time, elapsed, sleep_time, idx, responses,
                 raw_values, data, success, row, stopped_by, fatal_seen,
                 cycle, reads_done, stores_done,
                 pollVars, speedVars, otherVars>>

Next ==
  \/ ConnectFail \/ ConnectOk \/ InitDbOk \/ InitDbFail
  \/ CycleStart \/ ReadRegister \/ Store \/ Sleep
  \/ Interrupt \/ Cleanup

Spec == Init /\ [][Next]_vars

(***************************************************************************)
(* SpecSpeed: the speed classification of apps/maintainer.py               *)
(***************************************************************************)
InitSpeed ==
  /\ spc = "ready" /\ speed = <<0, 1>> /\ status = ""
  /\ PollIdle /\ CollIdle /\ OtherIdle

\* analyze_speed called with a speed given in tenths
AnalyzeSpeed ==
  /\ spc = "ready"
  /\ \E n \in (-10)..MaxSpeedTenths :
       speed' = <<n, 10>> /\ status' = analyze_speed(<<n, 10>>)
  /\ spc' = "done"
  /\ UNCHANGED <<pollVars, collVars, otherVars>>

\* one pass of the monitoring loop: the raw SPEED of the row is converted
\* and classified
MonitorStep ==
  /\ spc = "ready"
  /\ \E raw \in 0..MaxRawSpeed :
       speed' = main_speed(raw) /\ status' = analyze_speed(main_speed(raw))
  /\ spc' = "done"
  /\ UNCHANGED <<pollVars, collVars, otherVars>>

NextSpeed == AnalyzeSpeed \/ MonitorStep

SpecSpeed == InitSpeed /\ [][NextSpeed]_vars

(***************************************************************************)
(* Claims about the collector loop (Spec)                                  *)
(***************************************************************************)
SpeedIdx == IndexOf(40025)

\* the step is the transaction for register k and its response is of `kinds`
ReadStepOf(k, kinds) ==
  /\ pc = "reading" /\ idx = k
  /\ Len(responses') = Len(responses) + 1
  /\ responses'[k].kind \in kinds

\* the poll of the current cycle got a failing response for SPEED
SpeedFailed == Len(responses) >= SpeedIdx /\ ~IsOk(responses[SpeedIdx])

\* some transaction of the current cycle reported "not connected"
FatalNow == \E k \in 1..Len(responses) : responses[k].kind = "ConnectionException"

\* C7: when the transaction for 40025 returns an error, the cycle's poll
\* goes on to the next register with None recorded for SPEED, the snapshot
\* of the cycle holds SPEED = None, the loop stays Running (only an interrupt
\* leaves it) and the next cycle starts.
C7_SpeedErrorKeepsRunning ==
  /\ [][ReadStepOf(SpeedIdx, FailKinds) =>
          /\ pc' = "reading" /\ idx' = SpeedIdx + 1
          /\ raw_values' = Append(raw_values, None)
          /\ stopped_by' = ""]_vars
  /\ []((pc \in {"sleep", "end_of_body"} /\ SpeedFailed) =>
          (DictHas(data, "SPEED") /\ DictGet(data, "SPEED") = None))
  /\ [][(pc \in RunningPcs /\ SpeedFailed /\ stopped_by' = "") =>
          pc' \in RunningPcs]_vars
  /\ [][(pc = "end_of_body" /\ SpeedFailed /\ stopped_by' = "") =>
          (pc' = "reading" /\ idx' = 1 /\ responses' = <<>>)]_vars

\* a cycle whose SPEED read failed has finished with SPEED = None and the
\* next cycle is polling
C7_Witness ==
  /\ pc = "reading" /\ idx > SpeedIdx /\ IsOk(responses[SpeedIdx])
  /\ DictHas(data, "SPEED") /\ DictGet(data, "SPEED") = None
  /\ ~fatal_seen /\ stopped_by = ""

C10_SleepAndNextStart ==
  /\ [](sleep_time >= 0)
  /\ [][(pc = "sleep" /\ pc' = "end_of_body") =>
          /\ elapsed' = now - start_time
          /\ sleep_time' = (IF elapsed' < interval THEN interval - elapsed' ELSE 0)
          /\ now' = now + sleep_time']_vars
  /\ [][(pc = "end_of_body" /\ pc' = "reading") =>
          /\ start_time' = start_time + (IF elapsed <= interval THEN interval ELSE elapsed)
          /\ start_time' - start_time >= interval]_vars

\* a cycle that overran its interval is followed, without sleep, by the next
C10_Witness ==
  /\ pc = "reading" /\ elapsed > interval /\ sleep_time = 0
  /\ start_time = now /\ start_time > interval

(***************************************************************************)
(* Claims about the speed classification (SpecSpeed)                       *)
(***************************************************************************)
Rank(s) == CASE s = "stopped" -> 0 [] s = "slow" -> 1 [] s = "normal" -> 2
             [] s = "high" -> 3 [] OTHER -> -1

Lt(x, y) == x[1] * y[2] < y[1] * x[2]

SpeedInputs ==
  {<<n, 10>> : n \in (-10)..MaxSpeedTenths}
    \cup {main_speed(raw) : raw \in 0..MaxRawSpeed}

\* C9: analyze_speed puts every speed in exactly one of the four classes,
\* with the thresholds 0.1, 7 and 13 (0 -> stopped, 5 -> slow, 10 -> normal,
\* 15 -> high), and the class never goes down when the speed goes up.
C9_AnalyzeSpeedThresholds ==
  spc = "done" =>
    /\ status \in {"stopped", "slow", "normal", "high"}
    /\ (status = "stopped") <=> Leq(speed, <<1, 10>>)
    /\ (status = "slow")    <=> (Lt(<<1, 10>>, speed) /\ Leq(speed, <<7, 1>>))
    /\ (status = "normal")  <=> (Lt(<<7, 1>>, speed) /\ Leq(speed, <<13, 1>>))
    /\ (status = "high")    <=> Lt(<<13, 1>>, speed)
    /\ speed = main_speed(0) => status = "stopped"
    /\ speed = <<0, 10>>   => status = "stopped"
    /\ speed = <<50, 10>>  => status = "slow"
    /\ speed = <<100, 10>> => status = "normal"
    /\ speed = <<150, 10>> => status = "high"
    /\ \A s \in SpeedInputs :
         Leq(s, speed) => Rank(analyze_speed(s)) <= Rank(status)

\* the speed 15.0 has been classified
C9_Witness == spc = "done" /\ speed = <<150, 10>> /\ status = "high"

\* C11: once a user interrupt has cancelled the collector loop, the only
\* thing that still happens is the cleanup: no register is read and nothing
\* is written to the store afterwards, the loop is never entered again, and
\* at exit the database connection and the Modbus client have each been
\* closed exactly once.
C11_InterruptIsTerminal ==
  /\ [][stopped_by = "KeyboardInterrupt" =>
          /\ pc = "cleanup" /\ pc' = "exit"
          /\ stopped_by' = "KeyboardInterrupt"
          /\ UNCHANGED <<responses, raw_values, idx, data, success, row,
                         start_time, now>>]_vars
  /\ [](stopped_by = "KeyboardInterrupt" => pc \in {"cleanup", "exit"})
  /\ [](conn_closed <= 1 /\ client_closed <= 1)
  /\ []((pc = "exit" /\ stopped_by = "KeyboardInterrupt") =>
          (conn_closed = 1 /\ client_closed = 1))
  /\ []((pc = "cleanup") => (conn_closed = 0 /\ client_closed = 0))

\* the loop was interrupted in the middle of a poll and has exited
C11_Witness ==
  /\ pc = "exit" /\ stopped_by = "KeyboardInterrupt"
  /\ Len(responses) > 0 /\ Len(responses) < Len(ADDRESS_LIST)
  /\ conn_closed = 1 /\ client_closed = 1

\* a cycle got a snapshot but its write to the store failed
StoreFailed == pc \in {"sleep", "end_of_body"} /\ data # <<>> /\ ~success

NoNoneIn(d) == \A n \in 1..Len(d) : ~IsNone(d[n][2])

\* C12: a failed write of the snapshot (the UPDATE or the commit raises)
\* never stops the collector: collect_and_store_data ends with False and
\* without raising, the row is left as it was, the loop stays Running and,
\* unless the user interrupts, the next cycle polls the device again.
C12_StoreFailureKeepsRunning ==
  /\ [][(pc = "store" /\ stopped_by' # "KeyboardInterrupt") =>
          /\ pc' = "sleep" /\ stopped_by' = ""
          /\ (~success' => row' = row)]_vars
  /\ [][(StoreFailed /\ stopped_by' # "KeyboardInterrupt") =>
          /\ pc' \in RunningPcs /\ stopped_by' = ""
          /\ (pc = "end_of_body" =>
                (pc' = "reading" /\ idx' = 1 /\ responses' = <<>>))]_vars
  /\ [](StoreFailed => (conn_closed = 0 /\ client_closed = 0))

\* every register of a cycle was read, the write of that cycle failed in
\* the database, and the next cycle is polling
C12_Witness ==
  /\ pc = "reading" /\ idx > SpeedIdx /\ stopped_by = ""
  /\ data # <<>> /\ NoNoneIn(data) /\ ~success
  /\ row = initial_row

(***************************************************************************)
(* SpecStore: the table of utils/database/operations.py under              *)
(* create_database and the collector's cycles.                             *)
(***************************************************************************)
MaxCycles == 2

StoreVary == {40003, 40025}

StoreResponses == {OkResp(81), OkResp(5000), FailResp("isError")}

create_database_always_inserts(tbl) == Append(tbl, initial_row)

\* CREATE TABLE IF NOT EXISTS; SELECT COUNT(*) WHERE ID = 0; if count == 0:
\* INSERT the initial row
create_database(tbl) ==
  IF \E n \in 1..Len(tbl) : DictGet(tbl[n], "ID") = 0
    THEN tbl
    ELSE Append(tbl, initial_row)

InitStore ==
  /\ table = <<>> /\ written = <<>> /\ tcycles = 0 /\ tsuccess = FALSE
  /\ tdata = <<>> /\ tfault = "none" /\ tpc = "new"
  /\ cfg_row_id = row_id
  /\ NotStoreIdle

\* create_database, at start-up and whenever it is called again
CreateDatabase ==
  /\ tpc \in {"new", "ready"}
  /\ table' = create_database(table)
  /\ tpc' = "ready"
  /\ UNCHANGED <<written, tcycles, tsuccess, tdata, tfault, cfg_row_id, notStoreVars>>

\* one cycle of the collector: the poll, then collect_and_store_data's
\* UPDATE ... WHERE ID = row_id on every row of the table
StoreCycle ==
  /\ tpc = "ready" /\ tcycles < MaxCycles
  /\ \E scr \in AllScripts(StoreVary, StoreResponses), fault \in StoreFaults :
       LET raw == read_raw_all_address(scr).value
           c   == collect_and_store_data_at(raw, initial_row, fault, cfg_row_id)
       IN  /\ table' = [n \in 1..Len(table) |->
                          collect_and_store_data_at(raw, table[n], fault,
                                                    cfg_row_id).row]
           /\ written' = IF c.success THEN c.data ELSE written
           /\ tsuccess' = c.success
           /\ tdata' = c.data /\ tfault' = fault
  /\ tcycles' = tcycles + 1
  /\ UNCHANGED <<tpc, cfg_row_id, notStoreVars>>

NextStore == CreateDatabase \/ StoreCycle

SpecStore == InitStore /\ [][NextStore]_vars

\* the same, with the row id main reads from the configuration
\* (database_config.get('row_id', 0)): the default or another id
RowIds == {0, 1}

InitStoreCfg ==
  /\ table = <<>> /\ written = <<>> /\ tcycles = 0 /\ tsuccess = FALSE
  /\ tdata = <<>> /\ tfault = "none" /\ tpc = "new"
  /\ cfg_row_id \in RowIds
  /\ NotStoreIdle

SpecStoreCfg == InitStoreCfg /\ [][NextStore]_vars

\* C13: once created, the table holds exactly one row, the row with the
\* collector's row id, with the columns the INSERT gave it; the row holds the
\* initial values until a cycle's write succeeds and from then on the values
\* of the newest snapshot written; neither a cycle nor another
\* create_database adds a row.
C13_SingleRowLatestState ==
  /\ tpc = "new" => table = <<>>
  /\ tpc = "ready" =>
       /\ Len(table) = 1
       /\ DictGet(table[1], "ID") = row_id
       /\ DictKeys(table[1]) = DictKeys(initial_row)
       /\ written = <<>> => table[1] = initial_row
       /\ \A n \in 1..Len(written) :
            DictGet(table[1], written[n][1]) = written[n][2][1]

\* after several cycles the row holds the SPEED of the newest snapshot,
\* which differs from the initial one
C13_Witness ==
  /\ tpc = "ready" /\ tcycles >= 2 /\ Len(table) = 1
  /\ written # <<>> /\ DictGet(written, "SPEED") = Some(81)
  /\ DictGet(table[1], "SPEED") = 81

\* some register of the last cycle failed to read and the database did
\* nothing to the write on its own account
PartialCycle ==
  /\ tpc = "ready" /\ tcycles > 0 /\ tfault = "none"
  /\ tdata # <<>> /\ ~NoNoneIn(tdata)

\* C14: after a cycle in which the read of some register failed, the row
\* holds that cycle's value of every register that was read successfully.
C14_PartialFailureStillPersists ==
  PartialCycle =>
    \A n \in 1..Len(tdata) :
      ~IsNone(tdata[n][2]) => DictGet(table[1], tdata[n][1]) = tdata[n][2][1]

(***************************************************************************)
(* SpecCsv: DataCollector of utils/data/collector.py writing its CSV file. *)
(***************************************************************************)
MaxPoints == 2

CsvVary == {40061, 40301}

\* csv.writer writes None as the empty field and a number as its digits
csv_field(x) == IF IsNone(x) THEN "" ELSE ToString(x[1])

csv_row(values) == [n \in 1..Len(values) |-> csv_field(values[n])]

\* headers = list(self.inverter.name_to_address.keys())
headers == DictKeys(name_to_address)

\* _write_csv: the row is appended unless the file cannot be written, which
\* is logged and swallowed
_write_csv(file, fields, io_error) == IF io_error THEN file ELSE Append(file, fields)

InitCsv ==
  /\ csv_file = <<>> /\ clast = <<>> /\ ccount = 0 /\ cret = <<>>
  /\ cheader = FALSE /\ cpc = "new"
  /\ NotCsvIdle

\* DataCollector.__init__ on a file that does not exist: _write_header
NewDataCollector ==
  /\ cpc = "new"
  /\ \E io_error \in BOOLEAN :
       /\ csv_file' = _write_csv(csv_file, headers, io_error)
       /\ cheader' = ~io_error
  /\ cpc' = "ready"
  /\ UNCHANGED <<clast, ccount, cret, notCsvVars>>

\* collect_data_point
CollectDataPoint ==
  /\ cpc = "ready" /\ ccount < MaxPoints
  /\ \E scr \in AllScripts(CsvVary, StoreResponses), io_error \in BOOLEAN :
       LET list_of_values == AsList(read_raw_all_address(scr).value)
       IN  /\ csv_file' = _write_csv(csv_file, csv_row(list_of_values), io_error)
           /\ clast' = IF io_error THEN clast ELSE list_of_values
           /\ cret' = list_of_values
  /\ ccount' = ccount + 1
  /\ UNCHANGED <<cheader, cpc, notCsvVars>>

NextCsv == NewDataCollector \/ CollectDataPoint

SpecCsv == InitCsv /\ [][NextCsv]_vars

\* the header was written and after it at least one data row
CsvHasData == cpc = "ready" /\ cheader /\ Len(csv_file) >= 2

\* C15: every data row of the CSV file has as many fields as the header row,
\* and field i of a data row is the value read for the parameter that
\* header field i names.
C15_CsvRowsAlignedWithHeader ==
  CsvHasData =>
    /\ \A k \in 2..Len(csv_file) : Len(csv_file[k]) = Len(csv_file[1])
    /\ \A i \in 1..Len(csv_file[1]) :
         csv_file[Len(csv_file)][i] =
           csv_field(clast[IndexOf(DictGet(name_to_address, csv_file[1][i]))])

(***************************************************************************)
(* SpecChart: RealtimePlot of utils/visualization/realtime_plot.py pulling *)
(* from ModbusVisualizationApp._get_modbus_data or from                    *)
(* DatabaseVisualizer._get_speed_data.  A plotted number is a fraction     *)
(* <<n, d>>.                                                               *)
(***************************************************************************)
NPoints == 3

MaxUpdates == 4

\* float(value), and the literals 0 and 0.0
to_float(v) == <<v, 1>>

get_modbus_data_none_on_failure(resp) ==
  LET r == read_raw_single_address(40025, resp)
  IN  IF r.raised \/ IsNone(r.value) THEN None
      ELSE Some(to_float(r.value[1]))

\* ModbusVisualizationApp._get_modbus_data, self.address at its default 40025
get_modbus_data(resp) ==
  LET r == read_raw_single_address(40025, resp)
  IN  IF r.raised THEN Some(to_float(0))
      ELSE IF IsNone(r.value) THEN Some(to_float(0))
      ELSE Some(to_float(r.value[1]))

\* operations.execute_query(query, db_path, fetch_one, fetch_all) on a table
\* whose row holds `stored` in the selected column: c.execute(query) raises
\* TypeError when query is not a str; rows are fetched only on request
execute_query(query, db_path, fetch_one, fetch_all, stored) ==
  IF query.type # "str" THEN [raised |-> TRUE, result |-> None]
  ELSE IF fetch_one THEN [raised |-> FALSE, result |-> Some(<<stored>>)]
  ELSE IF fetch_all THEN [raised |-> FALSE, result |-> Some(<< <<stored>> >>)]
  ELSE [raised |-> FALSE, result |-> None]

\* DatabaseVisualizer._get_speed_data: execute_query(self.conn, query) hands
\* the connection as the query and the query text as the db_path
get_speed_data(stored) ==
  LET r == execute_query([type |-> "Connection"],
                         [type |-> "str", select |-> "SPEED"], FALSE, FALSE, stored)
  IN  IF r.raised THEN Some(to_float(0))
      ELSE IF IsNone(r.result) \/ r.result[1] = <<>> \/ r.result[1][1] = <<>>
        THEN Some(to_float(0))
      ELSE Some(main_speed(r.result[1][1][1]))

\* the slice s[1:], which is [] for the empty list
slice_from_1(s) == IF s = <<>> THEN <<>> ELSE Tail(s)

\* RealtimePlot._update_plot_data after the callback returned v; an
\* IndexError of x_data[-1] is caught after x_data was cut
update_plot_data(x, y, v) ==
  LET x1 == slice_from_1(x)
  IN  IF x1 = <<>> THEN [x |-> x1, y |-> y, appended |-> FALSE]
      ELSE [x |-> Append(x1, x1[Len(x1)] + 1), y |-> Append(slice_from_1(y), v),
            appended |-> TRUE]

\* RealtimePlot.__init__: x_data = list(range(n_points)), y_data = [0] * n_points
InitChart ==
  /\ x_data = [n \in 1..NPoints |-> n - 1]
  /\ y_data = [n \in 1..NPoints |-> to_float(0)]
  /\ y_src = [n \in 1..NPoints |-> "init"]
  /\ new_value = <<>> /\ n_updates = 0
  /\ chart_src \in {"modbus", "database"}
  \* the application has created the widget and started the timer
  /\ n_points = NPoints /\ graph_widget = TRUE /\ timer = "running"
  /\ timers_created = 1 /\ plot_op = "start_timer"
  /\ NotChartIdle

\* a timer tick of ModbusVisualizationApp
PullModbus ==
  /\ chart_src = "modbus" /\ n_updates < MaxUpdates
  /\ \E resp \in Responses :
       LET v == get_modbus_data(resp)
           u == update_plot_data(x_data, y_data, IF IsNone(v) THEN None ELSE v[1])
       IN  /\ new_value' = v
           /\ x_data' = u.x /\ y_data' = u.y
           /\ y_src' = IF u.appended
                          THEN Append(Tail(y_src), IF IsOk(resp) THEN "ok" ELSE "failed")
                          ELSE y_src
  /\ n_updates' = n_updates + 1
  /\ UNCHANGED <<chart_src, plotCtl, notChartVars>>

\* a timer tick of DatabaseVisualizer, the row holding some SPEED
PullDatabase ==
  /\ chart_src = "database" /\ n_updates < MaxUpdates
  /\ \E stored \in RawValues :
       LET q == execute_query([type |-> "Connection"],
                              [type |-> "str", select |-> "SPEED"], FALSE, FALSE, stored)
           v == get_speed_data(stored)
           u == update_plot_data(x_data, y_data, IF IsNone(v) THEN None ELSE v[1])
       IN  /\ new_value' = v
           /\ x_data' = u.x /\ y_data' = u.y
           /\ y_src' = IF u.appended
                          THEN Append(Tail(y_src),
                                      IF q.raised \/ IsNone(q.result) THEN "failed" ELSE "ok")
                          ELSE y_src
  /\ n_updates' = n_updates + 1
  /\ UNCHANGED <<chart_src, plotCtl, notChartVars>>

NextChart == PullModbus \/ PullDatabase

SpecChart == InitChart /\ [][NextChart]_vars

\* the last pull failed
LastPullFailed ==
  n_updates > 0 /\ Len(y_src) > 0 /\ y_src[Len(y_src)] = "failed"

C17_ConnectFailureExits ==
  /\ [][(pc = "connect" /\ pc' # "init_db") =>
          /\ pc' = "exit" /\ exit_code' = Some(1)
          /\ stopped_by' = "connect_failed" /\ connects' = 1]_vars
  /\ [](stopped_by = "connect_failed" =>
          /\ pc = "exit" /\ exit_code = Some(1) /\ connects = 1
          /\ responses = <<>> /\ raw_values = <<>> /\ data = <<>>
          /\ row = initial_row /\ ~success
          /\ conn_closed = 0 /\ client_closed = 0)
  /\ [][stopped_by = "connect_failed" => FALSE]_vars
  /\ [](connects <= 1)

\* main has returned 1 after the failed connect
C17_Witness ==
  /\ pc = "exit" /\ stopped_by = "connect_failed"
  /\ exit_code = Some(1) /\ connects = 1 /\ responses = <<>>

(***************************************************************************)
(* SpecMonitor: ModbusMonitor of utils/modbus/monitor.py, used on its own  *)
(* (m.monitor_continuous(...)) or in a with statement around it.           *)
(***************************************************************************)
MaxIterations == 3

\* ModbusMonitor.read_registers: the registers, [] on any error
read_registers(resp) == IF IsOk(resp) THEN resp.registers ELSE <<>>

\* while max_iterations is None or iterations < max_iterations
loop_goes_on ==
  IF IsNone(max_iterations) THEN TRUE ELSE iterations < max_iterations[1]

\* ModbusMonitor.__init__: the client is created (owned) or handed in
InitMonitor ==
  /\ mpc = "new"
  /\ owns_client \in BOOLEAN /\ as_context \in BOOLEAN
  /\ max_iterations \in {None} \cup {Some(n) : n \in 0..MaxIterations}
  /\ iterations = 0 /\ registers = <<>>
  /\ m_connects = 0 /\ m_closed = 0 /\ m_end = ""
  /\ m_reads = 0 /\ m_good_reads = 0 /\ m_callbacks = 0
  /\ NotMonIdle

\* __enter__: self.connect(), whatever it returns
Enter ==
  /\ mpc = "new" /\ as_context
  /\ m_connects' = m_connects + 1
  /\ mpc' = "entered"
  /\ UNCHANGED <<owns_client, as_context, max_iterations, iterations, registers,
                 m_closed, m_end, m_reads, m_good_reads,
                 m_callbacks, notMonVars>>

\* monitor_continuous is called
MonitorCalled == IF as_context THEN mpc = "entered" ELSE mpc = "new"

\* if not connect_client(self.client): return
MonitorConnectFail ==
  /\ MonitorCalled
  /\ m_connects' = m_connects + 1
  /\ mpc' = "returned" /\ m_end' = "connect_failed"
  /\ UNCHANGED <<owns_client, as_context, max_iterations, iterations, registers,
                 m_closed, m_reads, m_good_reads,
                 m_callbacks, notMonVars>>

MonitorConnectOk ==
  /\ MonitorCalled
  /\ m_connects' = m_connects + 1
  /\ mpc' = "loop"
  /\ UNCHANGED <<owns_client, as_context, max_iterations, iterations, registers,
                 m_closed, m_end, m_reads, m_good_reads,
                 m_callbacks, notMonVars>>

IterateCallsBackOnEmpty ==
  /\ mpc = "loop" /\ loop_goes_on /\ iterations < MaxIterations
  /\ \E resp \in Responses, callback_raises \in BOOLEAN :
       /\ registers' = read_registers(resp)
       /\ m_reads' = m_reads + 1
       /\ m_good_reads' = IF registers' # <<>> THEN m_good_reads + 1 ELSE m_good_reads
       /\ m_callbacks' = m_callbacks + 1
       /\ IF registers' # <<>> /\ callback_raises
            THEN mpc' = "finally" /\ m_end' = "exception" /\ iterations' = iterations
            ELSE mpc' = "loop" /\ m_end' = m_end /\ iterations' = iterations + 1
  /\ UNCHANGED <<owns_client, as_context, max_iterations, m_connects, m_closed,
                 notMonVars>>

\* one pass of the loop: registers = self.read_registers(); if registers:
\* callback(registers, timestamp), which may raise; iterations += 1
Iterate ==
  /\ mpc = "loop" /\ loop_goes_on /\ iterations < MaxIterations
  /\ \E resp \in Responses, callback_raises \in BOOLEAN :
       /\ registers' = read_registers(resp)
       /\ m_reads' = m_reads + 1
       /\ m_good_reads' = IF registers' # <<>> THEN m_good_reads + 1 ELSE m_good_reads
       /\ m_callbacks' = IF registers' # <<>> THEN m_callbacks + 1 ELSE m_callbacks
       /\ IF registers' # <<>> /\ callback_raises
            THEN mpc' = "finally" /\ m_end' = "exception" /\ iterations' = iterations
            ELSE mpc' = "loop" /\ m_end' = m_end /\ iterations' = iterations + 1
  /\ UNCHANGED <<owns_client, as_context, max_iterations, m_connects, m_closed,
                 notMonVars>>

\* the loop condition is false
LoopEnds ==
  /\ mpc = "loop" /\ ~loop_goes_on
  /\ mpc' = "finally" /\ m_end' = "exhausted"
  /\ UNCHANGED <<owns_client, as_context, max_iterations, iterations, registers,
                 m_connects, m_closed, m_reads, m_good_reads,
                 m_callbacks, notMonVars>>

\* except KeyboardInterrupt
MonitorInterrupt ==
  /\ mpc = "loop"
  /\ mpc' = "finally" /\ m_end' = "interrupt"
  /\ UNCHANGED <<owns_client, as_context, max_iterations, iterations, registers,
                 m_connects, m_closed, m_reads, m_good_reads,
                 m_callbacks, notMonVars>>

\* finally: if self.owns_client: close_client(self.client)
MonitorFinally ==
  /\ mpc = "finally"
  /\ m_closed' = IF owns_client THEN m_closed + 1 ELSE m_closed
  /\ mpc' = "returned"
  /\ UNCHANGED <<owns_client, as_context, max_iterations, iterations, registers,
                 m_connects, m_end, m_reads, m_good_reads,
                 m_callbacks, notMonVars>>

ExitAlwaysCloses ==
  /\ mpc = "returned" /\ as_context
  /\ m_closed' = m_closed + 1
  /\ mpc' = "exited"
  /\ UNCHANGED <<owns_client, as_context, max_iterations, iterations, registers,
                 m_connects, m_end, m_reads, m_good_reads,
                 m_callbacks, notMonVars>>

\* __exit__: if self.owns_client: close_client(self.client)
Exit ==
  /\ mpc = "returned" /\ as_context
  /\ m_closed' = IF owns_client THEN m_closed + 1 ELSE m_closed
  /\ mpc' = "exited"
  /\ UNCHANGED <<owns_client, as_context, max_iterations, iterations, registers,
                 m_connects, m_end, m_reads, m_good_reads,
                 m_callbacks, notMonVars>>

NextMonitor ==
  \/ Enter \/ MonitorConnectFail \/ MonitorConnectOk \/ Iterate \/ LoopEnds
  \/ MonitorInterrupt \/ MonitorFinally \/ Exit

SpecMonitor == InitMonitor /\ [][NextMonitor]_vars

\* monitoring has ended: monitor_continuous returned and, in a with
\* statement, the block was left
MonitoringEnded == IF as_context THEN mpc = "exited" ELSE mpc = "returned"

\* C18: when monitoring has ended, a monitor that created its own client
\* has closed it exactly once, however monitor_continuous ended and whether
\* or not the monitor was used in a with statement.
C18_OwnedClientClosedOnce ==
  (MonitoringEnded /\ owns_client) => m_closed = 1

(***************************************************************************)
(* Claims about the transport transactions of a poll (SpecPoll)            *)
(***************************************************************************)
\* C19: a finished poll of n addresses has issued exactly n transport
\* reads, the k-th one for the k-th address of the list (0-based, address -
\* 40001) with count = 1, whether or not earlier reads of the poll failed:
\* no address of the list is skipped, read again or read out of order.
C19_OneReadPerAddressInOrder ==
  ppc = "done" =>
    /\ Len(ret.calls) = Len(addresses)
    /\ \A k \in 1..Len(addresses) :
         /\ ret.calls[k].address = addresses[k] - 40001
         /\ ret.calls[k].count = 1

\* a poll of MaxLen addresses, the first two different, whose first read
\* failed and whose last read succeeded
C19_Witness ==
  /\ DoneMulti
  /\ Len(addresses) = MaxLen /\ addresses[1] # addresses[2]
  /\ ~IsOk(script[1]) /\ IsOk(script[MaxLen])
  /\ Len(ret.calls) = MaxLen
  /\ ret.value[1] = None /\ ret.value[MaxLen] # None

(***************************************************************************)
(* Claims about "read everything" (SpecPoll)                               *)
(***************************************************************************)
\* the multi-address read over ADDRESS_LIST against the same responses
MultiOverAddressList == read_raw_multi_address(ADDRESS_LIST, script)

\* first half of C20: read_raw_all_address() returns the list and makes the
\* transport calls of read_raw_multi_address(ADDRESS_LIST)
C20_AllIsMultiOverAddressList ==
  (ppc = "done" /\ op = "all") =>
    /\ ret.value = MultiOverAddressList.value
    /\ ret.calls = MultiOverAddressList.calls

\* C20: against the same transport responses read_raw_all_address() returns
\* the list read_raw_multi_address(ADDRESS_LIST) returns, and
\* read_raw_all_address_convert_dict() is that list keyed by parameter
\* name: one key per entry of the list, each entry found under the name of
\* its address.
C20_ReadAllIsMultiKeyedByName ==
  /\ C20_AllIsMultiOverAddressList
  /\ DoneAllDict =>
       /\ Len(ret.value) = Len(ADDRESS_LIST)
       /\ \A n \in 1..Len(ADDRESS_LIST) :
            /\ DictHas(ret.value, NameAt[n])
            /\ DictGet(ret.value, NameAt[n]) = MultiOverAddressList.value[n]

(***************************************************************************)
(* Claims about the order of the collector's cycles (Spec)                 *)
(***************************************************************************)
\* C21: poll cycles never overlap.  Each register read is one blocking call
\* on the only thread, and while cycle k reads its idx-th register all
\* reads and the store write of the cycles before it have completed; the
\* store write of a cycle starts after all its reads, and the next cycle
\* starts after that write.
C21_CyclesNeverOverlap ==
  /\ pc = "reading" =>
       /\ stores_done = cycle - 1
       /\ reads_done = Len(ADDRESS_LIST) * (cycle - 1) + (idx - 1)
  /\ pc = "store" =>
       /\ stores_done = cycle - 1
       /\ reads_done = Len(ADDRESS_LIST) * cycle
  /\ pc \in {"sleep", "end_of_body"} =>
       /\ stores_done = cycle
       /\ reads_done = Len(ADDRESS_LIST) * cycle

\* the first read of the second cycle has been made
C21_Witness ==
  /\ pc = "reading" /\ cycle = 2 /\ idx = 2
  /\ stores_done = 1 /\ reads_done = Len(ADDRESS_LIST) + 1

\* C22: cancellation is observed only at a loop-iteration boundary: when
\* the loop has been stopped by the user's interrupt, the cycle it was in
\* has completed, all its register reads made and its store write returned.
C22_CancellationAtCycleBoundary ==
  stopped_by = "KeyboardInterrupt" =>
    /\ reads_done = Len(ADDRESS_LIST) * cycle
    /\ stores_done = cycle

(***************************************************************************)
(* Claims about what a reported success means (SpecStoreCfg)               *)
(***************************************************************************)
\* the rows of the table whose ID is the configured row id
RowsWithId == {n \in 1..Len(table) : DictGet(table[n], "ID") = cfg_row_id}

\* C23: when collect_and_store_data returned True for the last cycle, the
\* table has a row with the configured row id and that row holds the value
\* of every entry of that cycle's snapshot; success is not reported for an
\* UPDATE that matched no row.
C23_SuccessMeansRowWritten ==
  (tpc = "ready" /\ tcycles > 0 /\ tsuccess) =>
    /\ RowsWithId # {}
    /\ \A n \in RowsWithId : \A k \in 1..Len(tdata) :
         DictGet(table[n], tdata[k][1]) = tdata[k][2][1]

(***************************************************************************)
(* SpecPlot: RealtimePlot of utils/visualization/realtime_plot.py under    *)
(* create_widget, start_timer, stop_timer and the ticks of its timer.      *)
(***************************************************************************)
\* what the update callback returns
PlotValues == {0, 81}

\* RealtimePlot.__init__
InitPlot ==
  /\ n_points \in 1..NPoints
  /\ x_data = [n \in 1..n_points |-> n - 1]
  /\ y_data = [n \in 1..n_points |-> to_float(0)]
  /\ y_src = [n \in 1..n_points |-> "init"]
  /\ new_value = <<>> /\ n_updates = 0 /\ chart_src = "callback"
  /\ graph_widget = FALSE /\ timer = "none" /\ timers_created = 0
  /\ plot_op = ""
  /\ NotChartIdle

\* create_widget: self.graph_widget = pg.PlotWidget(...)
CreateWidget ==
  /\ graph_widget' = TRUE /\ plot_op' = "create_widget"
  /\ UNCHANGED <<x_data, y_data, y_src, new_value, n_updates, chart_src,
                 n_points, timer, timers_created, notChartVars>>

\* start_timer: return without a widget; return when self.timer is not
\* None; else create a QTimer and start it
start_timer(widget, tmr) ==
  IF ~widget THEN [timer |-> tmr, created |-> 0]
  ELSE IF tmr # "none" THEN [timer |-> tmr, created |-> 0]
  ELSE [timer |-> "running", created |-> 1]

StartTimer ==
  /\ LET s == start_timer(graph_widget, timer)
     IN  timer' = s.timer /\ timers_created' = timers_created + s.created
  /\ plot_op' = "start_timer"
  /\ UNCHANGED <<x_data, y_data, y_src, new_value, n_updates, chart_src,
                 n_points, graph_widget, notChartVars>>

\* stop_timer: if self.timer is not None: self.timer.stop(); self.timer
\* keeps the stopped QTimer
StopTimer ==
  /\ timer' = IF timer # "none" THEN "stopped" ELSE timer
  /\ plot_op' = "stop_timer"
  /\ UNCHANGED <<x_data, y_data, y_src, new_value, n_updates, chart_src,
                 n_points, graph_widget, timers_created, notChartVars>>

\* the timeout of the running timer: _update_plot_data
TimerTick ==
  /\ timer = "running" /\ n_updates < MaxUpdates
  /\ \E v \in PlotValues :
       LET u == update_plot_data(x_data, y_data, to_float(v))
       IN  /\ new_value' = Some(to_float(v))
           /\ x_data' = u.x /\ y_data' = u.y
           /\ y_src' = IF u.appended THEN Append(Tail(y_src), "ok") ELSE y_src
  /\ n_updates' = n_updates + 1 /\ plot_op' = "tick"
  /\ UNCHANGED <<chart_src, n_points, graph_widget, timer, timers_created,
                 notChartVars>>

NextPlot == CreateWidget \/ StartTimer \/ StopTimer \/ TimerTick

SpecPlot == InitPlot /\ [][NextPlot]_vars

\* C24: for every n_points >= 1 and after any number of timer updates the
\* window keeps n_points entries in x_data and in y_data, x_data holds
\* consecutive integers, and the value pulled last is the last entry of
\* y_data.
C24_WindowKeepsItsLength ==
  /\ Len(x_data) = n_points /\ Len(y_data) = n_points
  /\ \A n \in 1..(Len(x_data) - 1) : x_data[n + 1] = x_data[n] + 1
  /\ n_updates > 0 => y_data[Len(y_data)] = new_value[1]

\* C25: at most one timer is ever created and running; start_timer before
\* the widget exists has no effect; with the widget, start_timer leaves the
\* timer running, also when it was stopped before.
C25_OneTimerAndRestart ==
  /\ timers_created <= 1
  /\ (plot_op = "start_timer" /\ ~graph_widget) =>
       (timer = "none" /\ timers_created = 0)
  /\ (plot_op = "start_timer" /\ graph_widget) => timer = "running"

(***************************************************************************)
(* The legacy classification of maintainer.py (SpecSpeed)                  *)
(***************************************************************************)
\* maintainer.py: if speed != 0: if speed < 7: slow; elif speed > 13: high;
\* else: normal; else: stopped
legacy_speed_class(s) ==
  IF s[1] # 0
    THEN IF Lt(s, <<7, 1>>) THEN "slow"
         ELSE IF Lt(<<13, 1>>, s) THEN "high"
         ELSE "normal"
  ELSE "stopped"

\* C26: for every speed, analyze_speed of apps/maintainer.py gives the class
\* the legacy loop of maintainer.py gives, the boundary values 0, 0.1, 7 and
\* 13 included.
C26_SameClassAsLegacy ==
  spc = "done" => status = legacy_speed_class(speed)

(***************************************************************************)
(* Claims about ModbusMonitor (SpecMonitor)                                *)
(***************************************************************************)
\* C27: a monitor that was handed its client never closes it, on no exit
\* path of monitor_continuous and not when the with statement is left.
C27_BorrowedClientNeverClosed ==
  ~owns_client => m_closed = 0

\* a monitor with a handed-in client, used in a with statement, whose loop
\* ran out and whose with block was left
C27_Witness ==
  /\ ~owns_client /\ as_context /\ mpc = "exited"
  /\ m_end = "exhausted" /\ m_closed = 0

\* monitor_continuous(max_iterations = n) has left its loop after a
\* successful connect
LoopLeft == mpc \in {"finally", "returned", "exited"} /\ m_end # "connect_failed"

MaxLoads == 3

\* DEFAULT_CONFIG: section -> the object of its dict
DEFAULT_CONFIG == [modbus |-> 1, database |-> 2]

\* the contents of the section dicts as the module literal gives them
DEFAULT_CONFIG_literal ==
  [modbus   |-> [port |-> "/dev/ttyUSB0", baudrate |-> 9600],
   database |-> [path |-> "data/inverter.db", default_id |-> 0]]

\* the object a section dict of a loaded file becomes when it is assigned
\* to a section DEFAULT_CONFIG lacks
FreshObject == 3

\* what json.load returns for the files: no file, a file overriding a key
\* of a section, a file overriding a key and adding a section
FileConfigs ==
  {<<>>,
   [modbus |-> [baudrate |-> 19200]],
   [database |-> [path |-> "other.db"], logging |-> [level |-> "DEBUG"]]}

\* MODCON_SECTION_KEY=value, as <<name, value>>
Envs ==
  {{},
   {<<"MODCON_MODBUS_BAUDRATE", "4800">>},
   {<<"MODCON_DATABASE_DEFAULT_ID", "7">>},
   {<<"MODCON_DATA_COLLECTION_SLEEP_TIME", "5">>}}

\* parts = env_name.lower().split('_'); section = parts[1];
\* key = '_'.join(parts[2:])
env_section(name) ==
  CASE name = "MODCON_MODBUS_BAUDRATE" -> "modbus"
    [] name = "MODCON_DATABASE_DEFAULT_ID" -> "database"
    [] name = "MODCON_DATA_COLLECTION_SLEEP_TIME" -> "data"

env_key(name) ==
  CASE name = "MODCON_MODBUS_BAUDRATE" -> "baudrate"
    [] name = "MODCON_DATABASE_DEFAULT_ID" -> "default_id"
    [] name = "MODCON_DATA_COLLECTION_SLEEP_TIME" -> "collection_sleep_time"

\* int(env_value) for the texts used
int_of(text) ==
  CASE text = "4800" -> 4800 [] text = "7" -> 7 [] text = "5" -> 5

\* dict.update of one dict by the items of another
dict_assign(d, u) ==
  [k \in (DOMAIN d) \cup (DOMAIN u) |-> IF k \in DOMAIN u THEN u[k] ELSE d[k]]

\* config = DEFAULT_CONFIG.copy(): a new top-level dict holding the same
\* section objects
shallow_copy(top) == [s \in DOMAIN top |-> top[s]]

\* _update_nested_dict(config, file_config): a section both have is
\* updated in place, key by key; any other section is assigned
update_nested_dict(h, top, upd) ==
  LET both  == (DOMAIN upd) \cap (DOMAIN top)
      added == (DOMAIN upd) \ (DOMAIN top)
      objs  == {1, 2} \cup (IF added = {} THEN {} ELSE {FreshObject})
  IN  [heap |-> [o \in objs |->
                   IF o = FreshObject THEN upd[CHOOSE s \in added : TRUE]
                   ELSE IF \E s \in both : top[s] = o
                     THEN dict_assign(h[o], upd[CHOOSE s \in both : top[s] = o])
                   ELSE h[o]],
       top  |-> [s \in (DOMAIN top) \cup added |->
                   IF s \in added THEN FreshObject ELSE top[s]]]

\* the loop over os.environ: config[section][key] = int(env_value) when
\* the section and the key exist (the keys overridden here are ints)
apply_env(h, top, env) ==
  [o \in DOMAIN h |->
     IF \E e \in env : /\ env_section(e[1]) \in DOMAIN top
                       /\ top[env_section(e[1])] = o
                       /\ env_key(e[1]) \in DOMAIN h[o]
       THEN LET e == CHOOSE e \in env : /\ env_section(e[1]) \in DOMAIN top
                                        /\ top[env_section(e[1])] = o
            IN  [h[o] EXCEPT ![env_key(e[1])] = int_of(e[2])]
       ELSE h[o]]

load_config(h, file, env) ==
  LET top0 == shallow_copy(DEFAULT_CONFIG)
      h0   == [o \in {1, 2} |-> h[o]]
      u    == IF file = <<>> THEN [heap |-> h0, top |-> top0]
              ELSE update_nested_dict(h0, top0, file)
  IN  [heap |-> apply_env(u.heap, u.top, env), config |-> u.top]

\* the module as imported: DEFAULT_CONFIG as written, config its copy
InitConfig ==
  /\ cfg_heap = [o \in {1, 2} |->
                   IF o = 1 THEN DEFAULT_CONFIG_literal.modbus
                   ELSE DEFAULT_CONFIG_literal.database]
  /\ config = shallow_copy(DEFAULT_CONFIG)
  /\ cfg_loads = 0 /\ last_file = <<>> /\ last_env = {}
  /\ NotCfgIdle

LoadConfig ==
  /\ cfg_loads < MaxLoads
  /\ \E file \in FileConfigs, env \in Envs :
       LET l == load_config(cfg_heap, file, env)
       IN  /\ cfg_heap' = l.heap /\ config' = l.config
           /\ last_file' = file /\ last_env' = env
  /\ cfg_loads' = cfg_loads + 1
  /\ UNCHANGED notCfgVars

NextConfig == LoadConfig

SpecConfig == InitConfig /\ [][NextConfig]_vars

\* the contents of a top-level dict, section by section
Contents(top) == [s \in DOMAIN top |-> cfg_heap[top[s]]]

\* C29: load_config never modifies DEFAULT_CONFIG, and a load_config
\* without a file and without environment overrides returns the original
\* default values for every section and key, whatever was loaded before.
C29_DefaultsNeverModified ==
  /\ Contents(DEFAULT_CONFIG) = DEFAULT_CONFIG_literal
  /\ (cfg_loads > 0 /\ last_file = <<>> /\ last_env = {}) =>
       Contents(config) = DEFAULT_CONFIG_literal

(***************************************************************************)
(* SinamicV20.__init__: address_to_hex, address -> offset                  *)
(***************************************************************************)
address_to_hex_literal ==
  <<
    <<40001, 0>>, <<40002, 1>>, <<40003, 2>>, <<40004, 3>>, <<40005, 4>>,
    <<40006, 5>>, <<40007, 6>>, <<40008, 7>>, <<40009, 8>>, <<40010, 9>>,
    <<40011, 10>>, <<40012, 11>>, <<40014, 13>>, <<40015, 14>>, <<40016, 15>>,
    <<40017, 16>>, <<40018, 17>>, <<40019, 18>>, <<40020, 19>>, <<40021, 20>>,
    <<40022, 21>>, <<40023, 21>>, <<40024, 23>>, <<40025, 24>>, <<40026, 25>>,
    <<40027, 26>>, <<40028, 27>>, <<40029, 28>>, <<40030, 29>>, <<40031, 30>>,
    <<40032, 31>>, <<40033, 32>>, <<40034, 33>>, <<40035, 34>>, <<40036, 35>>,
    <<40037, 36>>, <<40038, 37>>, <<40039, 38>>, <<40040, 39>>, <<40041, 40>>,
    <<40042, 41>>, <<40044, 43>>, <<40045, 44>>, <<40046, 45>>, <<40047, 46>>,
    <<40048, 47>>, <<40049, 48>>, <<40050, 49>>, <<40051, 50>>, <<40054, 53>>,
    <<40055, 54>>, <<40056, 55>>, <<40057, 56>>, <<40058, 57>>, <<40059, 58>>,
    <<40060, 59>>, <<40061, 60>>, <<40062, 61>>, <<40100, 99>>, <<40101, 100>>,
    <<40110, 109>>, <<40111, 110>>, <<40300, 299>>, <<40301, 300>>, <<40349, 348>>,
    <<40403, 402>>, <<40404, 403>>, <<40405, 404>>, <<40406, 405>>, <<40407, 406>>,
    <<40499, 498>>, <<40521, 520>>
  >>

address_to_hex == DictOf(address_to_hex_literal)

\* C30: for every address of the registry the offset address_to_hex gives
\* is the 0-based address read_raw_single_address hands to the transport
\* (address - 40001), and no two addresses have the same offset.
C30_HexTableMatchesTransport ==
  ppc \in {"ready", "done"} =>
    /\ \A n \in 1..Len(ADDRESS_LIST) :
         /\ DictHas(address_to_hex, ADDRESS_LIST[n])
         /\ DictGet(address_to_hex, ADDRESS_LIST[n])
              = transport_call(ADDRESS_LIST[n]).address
    /\ \A i, j \in 1..Len(address_to_hex) :
         i # j => address_to_hex[i][2] # address_to_hex[j][2]

====
